---- MODULE Spec2Model ----
(***************************************************************************)
(* Model of the NLx402 Rust client (src/rust/src/lib.rs): the credential   *)
(* holder, the request builders of the seven public operations, send_json  *)
(* (status classification and body decoding) and the composite             *)
(* get_and_verify_quote.  The network is the environment: it answers a     *)
(* request that was sent with a transport failure, or with a status and    *)
(* then either a failure to read the body or a body text.                  *)
(***************************************************************************)
EXTENDS Integers, Sequences, FiniteSets, TLC

(***************************************************************************)
(* Bounds of the model.                                                    *)
(***************************************************************************)
MaxSlashes == 1
NumNonces == 1

(***************************************************************************)
(* Option<T>: None is the empty sequence, Some(x) the one-element one.     *)
(***************************************************************************)
None == <<>>
Some(x) == <<x>>
is_some(o) == Len(o) = 1
is_none(o) == Len(o) = 0
unwrap(o) == o[1]

(***************************************************************************)
(* Result<T, Nlx402Error>.  kind is "Ok" or the error variant; status and  *)
(* body belong to Api, msg to InvalidResponse, value to Ok.                *)
(***************************************************************************)
Ok(v) == [kind |-> "Ok", status |-> 0, body |-> None, msg |-> "", value |-> Some(v)]
Http == [kind |-> "Http", status |-> 0, body |-> None, msg |-> "", value |-> None]
Api(st, b) == [kind |-> "Api", status |-> st, body |-> b, msg |-> "", value |-> None]
MissingApiKey == [kind |-> "MissingApiKey", status |-> 0, body |-> None, msg |-> "", value |-> None]
InvalidResponse(m) == [kind |-> "InvalidResponse", status |-> 0, body |-> None, msg |-> m, value |-> None]
NoResult == [kind |-> "pending", status |-> 0, body |-> None, msg |-> "", value |-> None]
is_ok(r) == r.kind = "Ok"

(***************************************************************************)
(* Texts.  A text (a response body, a form field, a header holding JSON)   *)
(* is written as the JSON document it spells: t is the JSON kind ("obj",   *)
(* "arr", "str", "int", "float", "bool", "null"), k the member name when   *)
(* the value is an object member, s/n the scalar, sub the members or       *)
(* elements in the order they are written (duplicate names included).      *)
(* t = "garbage" is a text that is not JSON at all.  Integers are drawn    *)
(* from -2^31 .. 2^31-1, so a non-negative one always fits u32.            *)
(***************************************************************************)
JStr(k, s) == [k |-> k, t |-> "str", s |-> s, n |-> 0, sub |-> <<>>]
JInt(k, n) == [k |-> k, t |-> "int", s |-> "", n |-> n, sub |-> <<>>]
JFloat(k, s) == [k |-> k, t |-> "float", s |-> s, n |-> 0, sub |-> <<>>]
JBool(k, b) == [k |-> k, t |-> "bool", s |-> IF b THEN "true" ELSE "false", n |-> 0, sub |-> <<>>]
JObj(k, members) == [k |-> k, t |-> "obj", s |-> "", n |-> 0, sub |-> members]
JArr(k, elems) == [k |-> k, t |-> "arr", s |-> "", n |-> 0, sub |-> elems]
Garbage == [k |-> "", t |-> "garbage", s |-> "<html>", n |-> 0, sub |-> <<>>]

(***************************************************************************)
(* The response types and their fields, in declaration order.              *)
(***************************************************************************)
F(name, ty) == [name |-> name, ty |-> ty]
AuthMeResponse == << F("ok", "bool"), F("created_at", "f64"), F("wallet_id", "String"),
                     F("selected_mint", "String") >>
MetadataInfo == << F("network", "String"), F("supported_chains", "Vec<String>"),
                   F("version", "String") >>
MetadataResponse == << F("ok", "bool"), F("metadata", "MetadataInfo"),
                       F("supported_mints", "Vec<String>") >>
QuoteResponse == << F("amount", "String"), F("chain", "String"), F("decimals", "u32"),
                    F("expires_at", "i64"), F("mint", "String"), F("network", "String"),
                    F("nonce", "String"), F("recipient", "String"), F("version", "String") >>
VerifyResponse == << F("ok", "bool") >>
X402Info == << F("amount", "String"), F("decimals", "u32"), F("mint", "String"),
               F("nonce", "String"), F("status", "String"), F("tx", "String"),
               F("version", "String") >>
PaidAccessResponse == << F("ok", "bool"), F("x402", "X402Info") >>

StructNames == {"AuthMeResponse", "MetadataInfo", "MetadataResponse", "QuoteResponse",
                "VerifyResponse", "X402Info", "PaidAccessResponse"}
Fields(ty) ==
    CASE ty = "AuthMeResponse" -> AuthMeResponse
      [] ty = "MetadataInfo" -> MetadataInfo
      [] ty = "MetadataResponse" -> MetadataResponse
      [] ty = "QuoteResponse" -> QuoteResponse
      [] ty = "VerifyResponse" -> VerifyResponse
      [] ty = "X402Info" -> X402Info
      [] ty = "PaidAccessResponse" -> PaidAccessResponse

(***************************************************************************)
(* serde_json::from_str::<T>: whether text v deserializes as type ty.  A   *)
(* derived struct reads a JSON object (every field exactly once, each of   *)
(* its own type; unknown members are skipped, a repeated field is the      *)
(* error "duplicate field", an absent one "missing field") or a JSON array *)
(* of exactly the fields in order.                                         *)
(***************************************************************************)
Occurrences(members, name) == {i \in 1..Len(members) : members[i].k = name}

RECURSIVE Fits(_, _)
Fits(ty, v) ==
    CASE ty = "bool" -> v.t = "bool"
      [] ty = "String" -> v.t = "str"
      [] ty = "u32" -> v.t = "int" /\ v.n >= 0
      [] ty = "i64" -> v.t = "int"
      [] ty = "f64" -> v.t \in {"int", "float"}
      [] ty = "Vec<String>" -> v.t = "arr" /\ \A i \in 1..Len(v.sub) : v.sub[i].t = "str"
      [] ty \in StructNames ->
            \/ /\ v.t = "obj"
               /\ \A j \in 1..Len(Fields(ty)) :
                     LET occ == Occurrences(v.sub, Fields(ty)[j].name)
                     IN  /\ Cardinality(occ) = 1
                         /\ \A i \in occ : Fits(Fields(ty)[j].ty, v.sub[i])
            \/ /\ v.t = "arr"
               /\ Len(v.sub) = Len(Fields(ty))
               /\ \A j \in 1..Len(Fields(ty)) : Fits(Fields(ty)[j].ty, v.sub[j])

(***************************************************************************)
(* The value from_str::<T> builds from a text that fits: a record with one *)
(* entry per field of the struct.  Numbers of an f64 field keep their      *)
(* spelling.                                                               *)
(***************************************************************************)
RECURSIVE Build(_, _)
Build(ty, v) ==
    CASE ty = "bool" -> v.s = "true"
      [] ty = "String" -> v.s
      [] ty = "u32" -> v.n
      [] ty = "i64" -> v.n
      [] ty = "f64" -> [t |-> v.t, s |-> v.s, n |-> v.n]
      [] ty = "Vec<String>" -> [i \in 1..Len(v.sub) |-> v.sub[i].s]
      [] ty \in StructNames ->
            LET fs == Fields(ty)
                names == {fs[j].name : j \in 1..Len(fs)}
                idx(nm) == CHOOSE j \in 1..Len(fs) : fs[j].name = nm
                at(nm) == IF v.t = "arr" THEN v.sub[idx(nm)]
                          ELSE v.sub[CHOOSE i \in Occurrences(v.sub, nm) : TRUE]
            IN  [nm \in names |-> Build(fs[idx(nm)].ty, at(nm))]

from_str(ty, text) ==
    IF Fits(ty, text) THEN Ok(Build(ty, text)) ELSE InvalidResponse("parse error")

(***************************************************************************)
(* serde_json::from_str::<Value>: any JSON text parses; an object becomes  *)
(* a map, so the order of its members is lost and of a repeated name the   *)
(* last member wins.                                                       *)
(***************************************************************************)
RECURSIVE ParseValue(_)
ParseValue(v) ==
    [t |-> v.t, s |-> v.s, n |-> v.n,
     arr |-> IF v.t = "arr" THEN [i \in 1..Len(v.sub) |-> ParseValue(v.sub[i])] ELSE <<>>,
     obj |-> IF v.t = "obj"
             THEN {[k |-> v.sub[i].k, v |-> ParseValue(v.sub[i])] :
                     i \in {j \in 1..Len(v.sub) :
                              \A l \in (j+1)..Len(v.sub) : v.sub[l].k # v.sub[j].k}}
             ELSE {}]

from_str_Value(text) == IF text.t = "garbage" THEN None ELSE Some(ParseValue(text))

(***************************************************************************)
(* serde_json::to_string(&QuoteResponse): the fields in declaration order. *)
(***************************************************************************)
to_string(quote) ==
    JObj("", << JStr("amount", quote.amount), JStr("chain", quote.chain),
                JInt("decimals", quote.decimals), JInt("expires_at", quote.expires_at),
                JStr("mint", quote.mint), JStr("network", quote.network),
                JStr("nonce", quote.nonce), JStr("recipient", quote.recipient),
                JStr("version", quote.version) >>)

(***************************************************************************)
(* Inputs of the operations and answers of the network.                    *)
(***************************************************************************)
Keys == {"k1", "k2"}
NonceNames == <<"abc123", "n2", "n3">>
Nonces == {NonceNames[i] : i \in 1..NumNonces}
NonceArgs == Nonces \cup {""}
TxArgs == {"", "tx1"}
TotalPrices == {None, Some("1.0")}

RECURSIVE Slashes(_)
Slashes(n) == IF n = 0 THEN <<>> ELSE <<"/">> \o Slashes(n - 1)
BaseUrlOptions == {None} \cup {Some(<<"h">> \o Slashes(n)) : n \in 0..MaxSlashes}
ApiKeyOptions == {None} \cup {Some(k) : k \in Keys}

GoodQuote(nonce) ==
    [amount |-> "0.5", chain |-> "solana", decimals |-> 6, expires_at |-> 1999999999,
     mint |-> "USDC", network |-> "mainnet", nonce |-> nonce, recipient |-> "wallet1",
     version |-> "1"]
QuoteArgs == {GoodQuote(n) : n \in NonceArgs}
QuoteJsonArgs == {to_string(GoodQuote("abc123")), Garbage}

WithoutField(text, name) ==
    JObj(text.k, SelectSeq(text.sub, LAMBDA m : m.k # name))
WithMember(text, m) == JObj(text.k, Append(text.sub, m))
AsArray(text) == JArr(text.k, text.sub)

QuoteBodies ==
    LET q == to_string(GoodQuote("abc123"))
    IN  {to_string(GoodQuote(n)) : n \in NonceArgs}
        \cup { WithoutField(q, "nonce"),
               WithMember(WithoutField(q, "decimals"), JInt("decimals", -1)),
               WithMember(WithoutField(q, "decimals"), JStr("decimals", "6")),
               WithMember(WithoutField(q, "expires_at"), JFloat("expires_at", "1.5")),
               WithMember(q, JStr("nonce", "abc123")),
               WithMember(q, JStr("memo", "extra")),
               AsArray(q) }
VerifyBodies ==
    { JObj("", <<JBool("ok", TRUE)>>), JObj("", <<JBool("ok", FALSE)>>),
      JObj("", <<JStr("ok", "yes")>>),
      JObj("", <<JBool("ok", TRUE), JBool("ok", TRUE)>>) }
X402Body ==
    JObj("x402", << JStr("amount", "0.5"), JInt("decimals", 6), JStr("mint", "USDC"),
                    JStr("nonce", "abc123"), JStr("status", "paid"), JStr("tx", "tx1"),
                    JStr("version", "1") >>)
MetadataInfoBody ==
    JObj("metadata", << JStr("network", "mainnet"),
                        JArr("supported_chains", <<JStr("", "solana")>>),
                        JStr("version", "1") >>)
OtherBodies ==
    { JObj("", << JBool("ok", TRUE), JFloat("created_at", "1700000000.5"),
                  JStr("wallet_id", "w1"), JStr("selected_mint", "USDC") >>),
      JObj("", << JBool("ok", TRUE), JInt("created_at", 1700000000),
                  JStr("wallet_id", "w1") >>),
      JObj("", << JBool("ok", TRUE), MetadataInfoBody,
                  JArr("supported_mints", <<JStr("", "USDC")>>) >>),
      JObj("", << JBool("ok", TRUE), WithoutField(MetadataInfoBody, "version"),
                  JArr("supported_mints", <<JStr("", "USDC")>>) >>),
      JObj("", << JBool("ok", TRUE), X402Body >>),
      JObj("", << JBool("ok", TRUE), WithoutField(X402Body, "tx") >>),
      JObj("", << JStr("error", "insufficient payment") >>),
      JStr("", "oops"),
      Garbage }
Bodies == QuoteBodies \cup VerifyBodies \cup OtherBodies
Statuses == {200, 299, 300, 402}

(***************************************************************************)
(* State.  The client: base_url, api_key.  new_key is the key option given *)
(* to new, key_arg the one given to the most recent of new / set_api_key.  *)
(* One call on the client runs at a time (call: its name, its arguments    *)
(* and, as key, the api_key of the &self it borrows; fn the function whose *)
(* send_json is awaited; pc                                                *)
(* the await it is suspended at: "send" for builder.send(), "text" for     *)
(* res.text(), "ready" when no call is running); quote is the local of     *)
(* get_and_verify_quote.  requests and responses are what the running (or  *)
(* last) call has put on and got from the network; result is what it       *)
(* returned.                                                               *)
(***************************************************************************)
VARIABLES base_url, api_key, new_key, key_arg, call, fn, pc, quote, requests, responses,
          result
vars == <<base_url, api_key, new_key, key_arg, call, fn, pc, quote, requests, responses,
          result>>

Call(name, key, total_price, q, quote_json, tx, nonce) ==
    [name |-> name, key |-> key, total_price |-> total_price, quote |-> q,
     quote_json |-> quote_json, tx |-> tx, nonce |-> nonce]
NoCall == Call("none", None, None, None, None, "", "")

(***************************************************************************)
(* Nlx402Client::new: the base URL defaults and loses its trailing slashes.*)
(***************************************************************************)
RECURSIVE trim_end_matches(_, _)
trim_end_matches(str, c) ==
    IF Len(str) > 0 /\ str[Len(str)] = c
    THEN trim_end_matches(SubSeq(str, 1, Len(str) - 1), c)
    ELSE str

DefaultBaseUrl == <<"https://pay.thrt.ai">>
new_base_url(opt) ==
    trim_end_matches(IF is_some(opt) THEN unwrap(opt) ELSE DefaultBaseUrl, "/")

Init ==
    /\ \E b \in BaseUrlOptions : base_url = new_base_url(b)
    /\ \E k \in ApiKeyOptions : api_key = k /\ new_key = k /\ key_arg = k
    /\ call = NoCall
    /\ fn = "none"
    /\ pc = "ready"
    /\ quote = None
    /\ requests = <<>>
    /\ responses = <<>>
    /\ result = NoResult

(***************************************************************************)
(* set_api_key takes &mut self: it cannot run while a call borrows the     *)
(* client.                                                                 *)
(***************************************************************************)
\* a slip: a key already set is kept
set_api_key_KeepsOld(old, k) == IF is_some(old) THEN old ELSE Some(k)
set_api_key(old, k) == Some(k)

SetApiKey ==
    /\ pc = "ready"
    /\ \E k \in Keys : api_key' = set_api_key(api_key, k) /\ key_arg' = Some(k)
    /\ UNCHANGED <<base_url, new_key, call, fn, pc, quote, requests, responses, result>>

\* a slip: unwrap_or_default in place of ok_or
require_api_key_Defaults(key) == Ok(IF is_some(key) THEN unwrap(key) ELSE "")
require_api_key(key) == IF is_some(key) THEN Ok(unwrap(key)) ELSE MissingApiKey

\* a slip: the emptiness checks never fire
is_empty_Never(str) == FALSE
is_empty(str) == str = ""

(***************************************************************************)
(* The requests the operations build.                                      *)
(***************************************************************************)
Request(method, url, key, price, payment, form) ==
    [method |-> method, url |-> url, x_api_key |-> key, x_total_price |-> price,
     x_payment |-> payment, form |-> form]
format_url(base, path) == base \o <<path>>

get_auth_me_request(base, key) ==
    Request("GET", format_url(base, "/api/auth/me"), Some(key), None, None, None)
get_metadata_request(base) ==
    Request("GET", format_url(base, "/api/metadata"), None, None, None, None)
get_quote_request(base, key, total_price) ==
    Request("GET", format_url(base, "/protected"), Some(key),
            Some(IF is_some(total_price) THEN unwrap(total_price) ELSE "0.5"), None, None)
verify_form(payment_data, nonce) == [payment_data |-> payment_data, nonce |-> nonce]
verify_request(base, key, payment_data, nonce) ==
    Request("POST", format_url(base, "/verify"), Some(key), None, None,
            Some(verify_form(payment_data, nonce)))
\* json!({"tx": tx, "nonce": nonce}).to_string(): a serde_json map writes its keys sorted
x_payment_json(tx, nonce) == JObj("", << JStr("nonce", nonce), JStr("tx", tx) >>)
get_paid_access_request(base, key, tx, nonce) ==
    Request("GET", format_url(base, "/protected"), Some(key), None,
            Some(x_payment_json(tx, nonce)), None)

(***************************************************************************)
(* Each operation up to its first await: it returns an error (Fail) or     *)
(* hands a request to send_json (Send).                                    *)
(***************************************************************************)
Fail(e) == [sent |-> FALSE, err |-> e, req |-> None]
Send(r) == [sent |-> TRUE, err |-> NoResult, req |-> Some(r)]

get_auth_me(base, key) ==
    LET k == require_api_key(key)
    IN  IF ~is_ok(k) THEN Fail(k) ELSE Send(get_auth_me_request(base, unwrap(k.value)))

\* a slip: get_metadata guarded like the authenticated operations
get_metadata_Guarded(base, key) ==
    LET k == require_api_key(key)
    IN  IF ~is_ok(k) THEN Fail(k) ELSE Send(get_metadata_request(base))
get_metadata(base, key) == Send(get_metadata_request(base))

get_quote(base, key, total_price) ==
    LET k == require_api_key(key)
    IN  IF ~is_ok(k) THEN Fail(k)
        ELSE Send(get_quote_request(base, unwrap(k.value), total_price))

\* a slip: verify_quote without its check of the nonce
verify_quote_Unchecked(base, key, q, nonce) ==
    LET k == require_api_key(key)
    IN  IF ~is_ok(k) THEN Fail(k)
        ELSE Send(verify_request(base, unwrap(k.value), to_string(q), nonce))
verify_quote(base, key, q, nonce) ==
    LET k == require_api_key(key)
    IN  IF ~is_ok(k) THEN Fail(k)
        ELSE IF is_empty(nonce) THEN Fail(InvalidResponse("verify_quote: nonce is required"))
        ELSE Send(verify_request(base, unwrap(k.value), to_string(q), nonce))

verify_quote_raw(base, key, quote_json, nonce) ==
    LET k == require_api_key(key)
    IN  IF ~is_ok(k) THEN Fail(k)
        ELSE IF is_empty(nonce)
             THEN Fail(InvalidResponse("verify_quote_raw: nonce is required"))
        ELSE Send(verify_request(base, unwrap(k.value), quote_json, nonce))

get_paid_access(base, key, tx, nonce) ==
    LET k == require_api_key(key)
    IN  IF ~is_ok(k) THEN Fail(k)
        ELSE IF is_empty(tx) \/ is_empty(nonce)
             THEN Fail(InvalidResponse("get_paid_access: tx and nonce are required"))
        ELSE Send(get_paid_access_request(base, unwrap(k.value), tx, nonce))

(***************************************************************************)
(* send_json after both awaits: the status decides first.                  *)
(***************************************************************************)
\* a slip: every status from 200 up counts as success
is_success_NoUpper(status) == 200 <= status
is_success(status) == 200 <= status /\ status <= 299

\* a slip: the body is decoded before the status is looked at
send_json_DecodeFirst(ty, status, text) ==
    IF Fits(ty, text) THEN from_str(ty, text)
    ELSE IF ~is_success(status) THEN Api(status, from_str_Value(text))
    ELSE InvalidResponse("parse error")
\* a slip: a body that does not decode is reported as an Api error
send_json_ApiOnDecode(ty, status, text) ==
    IF ~is_success(status) \/ ~Fits(ty, text) THEN Api(status, from_str_Value(text))
    ELSE from_str(ty, text)
send_json(ty, status, text) ==
    IF ~is_success(status) THEN Api(status, from_str_Value(text))
    ELSE from_str(ty, text)

ResponseType(f) ==
    CASE f = "get_auth_me" -> "AuthMeResponse"
      [] f = "get_metadata" -> "MetadataResponse"
      [] f = "get_quote" -> "QuoteResponse"
      [] f = "verify_quote" -> "VerifyResponse"
      [] f = "verify_quote_raw" -> "VerifyResponse"
      [] f = "get_paid_access" -> "PaidAccessResponse"

\* get_and_verify_quote, line 293: the quote just decoded and its own nonce
\* a slip: another field of the quote threaded as the nonce
get_and_verify_quote_verify_WrongField(base, key, q) ==
    verify_quote(base, key, q, q.recipient)
get_and_verify_quote_verify(base, key, q) == verify_quote(base, key, q, q.nonce)
QuoteAndVerify(q, v) == [quote |-> q, verify |-> v]

(***************************************************************************)
(* A call starts: the operation runs to its first await or to its return.  *)
(***************************************************************************)
Begin(c, f, start) ==
    /\ pc = "ready"
    /\ call' = c
    /\ fn' = f
    /\ quote' = None
    /\ requests' = IF start.sent THEN <<unwrap(start.req)>> ELSE <<>>
    /\ responses' = <<>>
    /\ result' = start.err
    /\ pc' = IF start.sent THEN "send" ELSE "ready"
    /\ UNCHANGED <<base_url, api_key, new_key, key_arg>>

GetAuthMe ==
    Begin(Call("get_auth_me", api_key, None, None, None, "", ""), "get_auth_me",
          get_auth_me(base_url, api_key))

GetMetadata ==
    Begin(Call("get_metadata", api_key, None, None, None, "", ""), "get_metadata",
          get_metadata(base_url, api_key))

GetQuote ==
    \E p \in TotalPrices :
        Begin(Call("get_quote", api_key, p, None, None, "", ""), "get_quote",
              get_quote(base_url, api_key, p))

VerifyQuote ==
    \E q \in QuoteArgs, n \in NonceArgs :
        Begin(Call("verify_quote", api_key, None, Some(q), None, "", n), "verify_quote",
              verify_quote(base_url, api_key, q, n))

VerifyQuoteRaw ==
    \E j \in QuoteJsonArgs, n \in NonceArgs :
        Begin(Call("verify_quote_raw", api_key, None, None, Some(j), "", n), "verify_quote_raw",
              verify_quote_raw(base_url, api_key, j, n))

GetPaidAccess ==
    \E t \in TxArgs, n \in NonceArgs :
        Begin(Call("get_paid_access", api_key, None, None, None, t, n), "get_paid_access",
              get_paid_access(base_url, api_key, t, n))

GetAndVerifyQuote ==
    \E p \in TotalPrices :
        Begin(Call("get_and_verify_quote", api_key, p, None, None, "", ""), "get_quote",
              get_quote(base_url, api_key, p))

(***************************************************************************)
(* send_json, line 159: builder.send() fails, or returns the response head.*)
(***************************************************************************)
Last(seq) == seq[Len(seq)]
SetLast(seq, x) == [seq EXCEPT ![Len(seq)] = x]

\* a slip: a request whose send failed is sent again
SendFails_Retry ==
    /\ pc = "send"
    /\ Len(requests) < 4
    /\ requests' = Append(requests, Last(requests))
    /\ UNCHANGED <<base_url, api_key, new_key, key_arg, call, fn, pc, quote, responses,
                   result>>

SendFails ==
    /\ pc = "send"
    /\ result' = Http
    /\ pc' = "ready"
    /\ UNCHANGED <<base_url, api_key, new_key, key_arg, call, fn, quote, requests, responses>>

SendReturns ==
    /\ pc = "send"
    /\ \E st \in Statuses :
          responses' = Append(responses, [status |-> st, read |-> "pending", text |-> None])
    /\ pc' = "text"
    /\ UNCHANGED <<base_url, api_key, new_key, key_arg, call, fn, quote, requests, result>>

(***************************************************************************)
(* send_json, line 161: res.text() fails, or returns the body; then the    *)
(* rest of send_json and of the operation that awaited it.                 *)
(***************************************************************************)
TextFails ==
    /\ pc = "text"
    /\ responses' = SetLast(responses, [Last(responses) EXCEPT !.read = "failed"])
    /\ result' = Http
    /\ pc' = "ready"
    /\ UNCHANGED <<base_url, api_key, new_key, key_arg, call, fn, quote, requests>>

TextReturns ==
    /\ pc = "text"
    /\ \E text \in Bodies :
        LET r == send_json(ResponseType(fn), Last(responses).status, text)
        IN  /\ responses' = SetLast(responses,
                    [Last(responses) EXCEPT !.read = "ok", !.text = Some(text)])
            /\ IF call.name = "get_and_verify_quote" /\ fn = "get_quote" /\ is_ok(r)
               THEN LET q == unwrap(r.value)
                        start == get_and_verify_quote_verify(base_url, api_key, q)
                    IN  /\ quote' = Some(q)
                        /\ fn' = "verify_quote"
                        /\ requests' = IF start.sent
                                       THEN Append(requests, unwrap(start.req))
                                       ELSE requests
                        /\ result' = start.err
                        /\ pc' = IF start.sent THEN "send" ELSE "ready"
               ELSE /\ result' = IF call.name = "get_and_verify_quote" /\ is_ok(r)
                                 THEN Ok(QuoteAndVerify(unwrap(quote), unwrap(r.value)))
                                 ELSE r
                    /\ pc' = "ready"
                    /\ UNCHANGED <<fn, quote, requests>>
    /\ UNCHANGED <<base_url, api_key, new_key, key_arg, call>>

Next ==
    \/ SetApiKey
    \/ GetAuthMe
    \/ GetMetadata
    \/ GetQuote
    \/ VerifyQuote
    \/ VerifyQuoteRaw
    \/ GetPaidAccess
    \/ GetAndVerifyQuote
    \/ SendFails
    \/ SendReturns
    \/ TextFails
    \/ TextReturns

Spec == Init /\ [][Next]_vars

(***************************************************************************)
(* Vocabulary of the properties.                                           *)
(***************************************************************************)
AuthOps == {"get_auth_me", "get_quote", "verify_quote", "verify_quote_raw",
            "get_paid_access", "get_and_verify_quote"}
SingleStepOps == {"get_auth_me", "get_metadata", "get_quote", "verify_quote",
                  "verify_quote_raw", "get_paid_access"}
Returned == pc = "ready" /\ call.name # "none"
In2xx(st) == st \in 200..299
IsVerifyRequest(r) == r.method = "POST" /\ Last(r.url) = "/verify"
IsQuoteRequest(r) ==
    r.method = "GET" /\ Last(r.url) = "/protected" /\ is_some(r.x_total_price)
Received(i) == i \in 1..Len(responses) /\ responses[i].read = "ok"
\* the type the i-th response of the call is decoded into
StepType(i) ==
    IF call.name = "get_and_verify_quote"
    THEN (IF i = 1 THEN "QuoteResponse" ELSE "VerifyResponse")
    ELSE ResponseType(call.name)
Decodes(i) == Received(i) /\ Fits(StepType(i), unwrap(responses[i].text))
FieldNames(ty) == {Fields(ty)[j].name : j \in 1..Len(Fields(ty))}
\* the quote step of get_and_verify_quote got a 2xx response that decodes
QuoteStepOk == Received(1) /\ In2xx(responses[1].status) /\ Decodes(1)
QuoteOfStep == Build("QuoteResponse", unwrap(responses[1].text))
EmptyArgs ==
    \/ call.name \in {"verify_quote", "verify_quote_raw"} /\ call.nonce = ""
    \/ call.name = "get_paid_access" /\ (call.tx = "" \/ call.nonce = "")

(***************************************************************************)
(* C1: every operation that requires a credential, whatever its arguments, *)
(* called on a client whose api_key is unset, returns MissingApiKey and    *)
(* issues no network request.                                              *)
(***************************************************************************)
C1_MissingApiKey ==
    (call.name \in AuthOps /\ is_none(call.key)) =>
        /\ pc = "ready"
        /\ result = MissingApiKey
        /\ requests = <<>>

C1_Witness ==
    /\ call.name = "get_paid_access" /\ call.tx = "tx1" /\ call.nonce = "abc123"
    /\ is_none(call.key)
    /\ result = MissingApiKey

(***************************************************************************)
(* C2 as stated: in every client state (key set or not) verify_quote and   *)
(* verify_quote_raw with an empty nonce, and get_paid_access with an empty *)
(* tx or nonce, fail with InvalidResponse and issue no network request.    *)
(***************************************************************************)
C2_Original ==
    EmptyArgs =>
        /\ pc = "ready"
        /\ result.kind = "InvalidResponse"
        /\ requests = <<>>

(***************************************************************************)
(* C2 amended: those calls never issue a network request; they fail with   *)
(* InvalidResponse when an API key is set, and with MissingApiKey when     *)
(* none is set.                                                            *)
(***************************************************************************)
C2_EmptyArgs ==
    EmptyArgs =>
        /\ pc = "ready"
        /\ requests = <<>>
        /\ is_some(call.key) => result.kind = "InvalidResponse"
        /\ is_none(call.key) => result = MissingApiKey

C2_Witness ==
    /\ call.name = "get_paid_access" /\ call.tx = "" /\ call.nonce = "abc123"
    /\ is_some(call.key)
    /\ result = InvalidResponse("get_paid_access: tx and nonce are required")
    /\ requests = <<>>

(***************************************************************************)
(* C3: get_and_verify_quote issues POST /verify only after the GET         *)
(* /protected response was received with a 2xx status and decoded into a   *)
(* quote; when the quote step fails, no verify request is issued and the   *)
(* composite returns the quote step's error.                               *)
(***************************************************************************)
C3_VerifyAfterQuote ==
    call.name = "get_and_verify_quote" =>
        /\ \A i \in 1..Len(requests) :
              IsVerifyRequest(requests[i]) =>
                  i = 2 /\ IsQuoteRequest(requests[1]) /\ QuoteStepOk
        /\ (pc = "ready" /\ ~QuoteStepOk) =>
              /\ \A i \in 1..Len(requests) : ~IsVerifyRequest(requests[i])
              /\ Len(responses) <= 1
              /\ result =
                    IF is_none(call.key) THEN MissingApiKey
                    ELSE IF ~Received(1) THEN Http
                    ELSE IF ~In2xx(responses[1].status)
                         THEN Api(responses[1].status,
                                  from_str_Value(unwrap(responses[1].text)))
                    ELSE InvalidResponse("parse error")

C3_Witness ==
    /\ call.name = "get_and_verify_quote"
    /\ Len(requests) = 2 /\ IsVerifyRequest(requests[2])
    /\ QuoteStepOk

(***************************************************************************)
(* C4: the verify request of get_and_verify_quote carries as nonce the     *)
(* nonce of the quote decoded from the quote response of the same call and *)
(* as payment_data the serialization of that quote; on success the         *)
(* returned quote.nonce is the nonce that was submitted.                   *)
(***************************************************************************)
C4_NonceThreaded ==
    call.name = "get_and_verify_quote" =>
        /\ \A i \in 1..Len(requests) :
              IsVerifyRequest(requests[i]) =>
                  /\ QuoteStepOk
                  /\ unwrap(requests[i].form).nonce = QuoteOfStep.nonce
                  /\ unwrap(requests[i].form).payment_data = to_string(QuoteOfStep)
        /\ is_ok(result) =>
              /\ Len(requests) = 2
              /\ unwrap(result.value).quote = QuoteOfStep
              /\ unwrap(result.value).quote.nonce = unwrap(requests[2].form).nonce

C4_Witness ==
    /\ call.name = "get_and_verify_quote"
    /\ is_ok(result)
    /\ unwrap(result.value).quote.nonce = "abc123"
    /\ unwrap(requests[2].form).nonce = "abc123"
    /\ unwrap(result.value).verify.ok = TRUE

(***************************************************************************)
(* C5: a response with a status outside 200..299 whose body text was       *)
(* received makes the call return Api with exactly that status, body       *)
(* Some(parsed) when the text is JSON and None when it is not, also when   *)
(* the text would decode into the type the operation expects.              *)
(***************************************************************************)
InsufficientPayment ==
    [t |-> "obj", s |-> "", n |-> 0, arr |-> <<>>,
     obj |-> {[k |-> "error",
               v |-> [t |-> "str", s |-> "insufficient payment", n |-> 0, arr |-> <<>>,
                      obj |-> {}]]}]

C5_NonSuccessIsApi ==
    \A i \in 1..Len(responses) :
        (Received(i) /\ ~In2xx(responses[i].status)) =>
            LET text == unwrap(responses[i].text)
            IN  /\ pc = "ready"
                /\ i = Len(responses)
                /\ result.kind = "Api"
                /\ result.status = responses[i].status
                /\ (text.t = "garbage") => result.body = None
                /\ (text.t # "garbage") => result.body = Some(ParseValue(text))
                /\ (text = JObj("", <<JStr("error", "insufficient payment")>>)) =>
                       result.body = Some(InsufficientPayment)

C5_Witness ==
    /\ call.name = "get_quote"
    /\ Received(1) /\ responses[1].status = 402
    /\ Decodes(1)
    /\ result.kind = "Api" /\ result.status = 402

(***************************************************************************)
(* C6 as stated: for every operation and every response with a status in   *)
(* 200..299 (read here as one whose body text was received) the operation  *)
(* returns a success value if and only if the body decodes into the        *)
(* expected type, and InvalidResponse otherwise.                           *)
(***************************************************************************)
C6_Original ==
    \A i \in 1..Len(responses) :
        (Returned /\ Received(i) /\ In2xx(responses[i].status)) =>
            /\ is_ok(result) <=> Decodes(i)
            /\ ~is_ok(result) => result.kind = "InvalidResponse"

(***************************************************************************)
(* C6 amended: for every single-step operation, and for each of the two    *)
(* steps of get_and_verify_quote, a response with a status in 200..299     *)
(* whose body text was received yields the step's value if and only if the *)
(* text decodes into the step's type, with every field of the type taken   *)
(* from the text, and otherwise makes the call return InvalidResponse,     *)
(* never an Api error.  A single-step operation returns that value;        *)
(* get_and_verify_quote goes on to its verify step with the quote, and     *)
(* after the verify step returns the quote and the verification.           *)
(***************************************************************************)
C6_Decode ==
    \A i \in 1..Len(responses) :
        (Received(i) /\ In2xx(responses[i].status)) =>
            LET text == unwrap(responses[i].text)
                ty == StepType(i)
                present == text.t = "obj" =>
                              \A nm \in FieldNames(ty) : \E j \in 1..Len(text.sub) :
                                  text.sub[j].k = nm
            IN  /\ ~Decodes(i) =>
                      /\ pc = "ready"
                      /\ result = InvalidResponse("parse error")
                /\ ~present => ~Decodes(i)
                /\ (Decodes(i) /\ call.name \in SingleStepOps) =>
                      /\ pc = "ready"
                      /\ result = Ok(Build(ty, text))
                      /\ DOMAIN unwrap(result.value) = FieldNames(ty)
                /\ (Decodes(i) /\ call.name = "get_and_verify_quote" /\ i = 1) =>
                      /\ quote = Some(Build(ty, text))
                      /\ DOMAIN unwrap(quote) = FieldNames(ty)
                /\ (Decodes(i) /\ call.name = "get_and_verify_quote" /\ i = 2) =>
                      /\ pc = "ready"
                      /\ result = Ok(QuoteAndVerify(unwrap(quote), Build(ty, text)))

C6_Witness ==
    /\ call.name = "get_quote"
    /\ Received(1) /\ responses[1].status = 200
    /\ unwrap(responses[1].text) = WithoutField(to_string(GoodQuote("abc123")), "nonce")
    /\ result.kind = "InvalidResponse"

(***************************************************************************)
(* C7: get_metadata needs no credential: with or without an API key it     *)
(* never returns MissingApiKey and issues exactly one request, GET         *)
(* <base_url>/api/metadata without an x-api-key header; every other        *)
(* operation returns MissingApiKey when no key is set.                     *)
(***************************************************************************)
C7_MetadataNoAuth ==
    /\ call.name = "get_metadata" =>
          /\ result.kind # "MissingApiKey"
          /\ Len(requests) = 1
          /\ requests[1].method = "GET"
          /\ requests[1].url = base_url \o <<"/api/metadata">>
          /\ is_none(requests[1].x_api_key)
          /\ base_url \in {<<"https://pay.thrt.ai">>, <<"h">>}
    /\ (call.name \notin {"none", "get_metadata"} /\ is_none(call.key)) =>
          result = MissingApiKey

C7_Witness ==
    /\ call.name = "get_metadata"
    /\ is_none(call.key)
    /\ is_ok(result)
    /\ requests = << get_metadata_request(<<"h">>) >>

(***************************************************************************)
(* C8: the key an authenticated operation sends is the key given by the    *)
(* most recent set_api_key, or by new when set_api_key was never called:   *)
(* the client's key is always that key, every call reads it, returns       *)
(* MissingApiKey only when there is none, and puts it in the x-api-key     *)
(* header of each of its requests.                                         *)
(***************************************************************************)
C8_LatestKey ==
    /\ api_key = key_arg
    /\ pc # "ready" => call.key = key_arg
    /\ call.name \in AuthOps =>
          /\ result = MissingApiKey <=> is_none(call.key)
          /\ \A i \in 1..Len(requests) : requests[i].x_api_key = call.key

C8_Witness ==
    /\ new_key = Some("k1")
    /\ key_arg = Some("k2")
    /\ call.name = "get_and_verify_quote"
    /\ Len(requests) = 2
    /\ \A i \in 1..2 : requests[i].x_api_key = Some("k2")

(***************************************************************************)
(* C9: nothing is retried.  A single-step operation issues at most one     *)
(* request, get_and_verify_quote at most two (the quote request, then at   *)
(* most one verify request); a request is issued only when every earlier   *)
(* one was answered, and once the call has a result it has returned.       *)
(***************************************************************************)
C9_NoRetry ==
    /\ call.name \in SingleStepOps => Len(requests) <= 1
    /\ call.name = "get_and_verify_quote" =>
          /\ Len(requests) <= 2
          /\ Len(requests) >= 1 => IsQuoteRequest(requests[1])
          /\ Len(requests) = 2 => IsVerifyRequest(requests[2]) /\ QuoteStepOk
    /\ Len(responses) <= Len(requests)
    /\ pc # "ready" => Len(requests) = Len(responses) + (IF pc = "send" THEN 1 ELSE 0)
    /\ result.kind # "pending" => pc = "ready"
    /\ Returned => result.kind # "pending"
    /\ (Returned /\ Len(requests) > Len(responses)) => result = Http
    /\ (Returned /\ Len(responses) >= 1 /\ Last(responses).read = "failed") =>
          result = Http
    /\ (Returned /\ result.kind \in {"Http", "Api"}) =>
          Len(requests) >= 1 /\ Len(requests) >= Len(responses)

C9_Witness ==
    /\ call.name = "get_and_verify_quote"
    /\ Len(requests) = 2
    /\ pc = "ready"
    /\ result = Http

(***************************************************************************)
(* C10: when the quote step of get_and_verify_quote decodes a quote whose  *)
(* nonce is empty, the composite issues the quote request only and returns *)
(* InvalidResponse; a successful composite has a non-empty quote.nonce.    *)
(***************************************************************************)
C10_EmptyQuoteNonce ==
    call.name = "get_and_verify_quote" =>
        /\ (QuoteStepOk /\ QuoteOfStep.nonce = "") =>
              /\ pc = "ready"
              /\ Len(requests) = 1
              /\ IsQuoteRequest(requests[1])
              /\ result = InvalidResponse("verify_quote: nonce is required")
        /\ is_ok(result) => unwrap(result.value).quote.nonce # ""

C10_Witness ==
    /\ call.name = "get_and_verify_quote"
    /\ QuoteStepOk
    /\ QuoteOfStep.nonce = ""
    /\ result.kind = "InvalidResponse"

====
